---------------------------- MODULE Spec2Model ----------------------------
(***************************************************************************)
(* Watch_Dogs/Core: the sampling / rate engine.                            *)
(*                                                                         *)
(*   corelib.py          system CPU %, memory %, network speed             *)
(*   process_monitor.py  per-process CPU %, disk IO speed, nethogs feed    *)
(*                                                                         *)
(* Raw counters (/proc/stat, /proc/net/dev, /proc/[pid]/stat,              *)
(* /proc/[pid]/io, /proc/meminfo) and the clock are the environment: every *)
(* read draws a value from a bounded set.  Under the environment          *)
(* assumption I1 (spec.md section 3: no raw counter ever decreases, and   *)
(* successive timestamps strictly increase) `raw' remembers the value     *)
(* last read of each counter and every read is drawn at or above it.      *)
(* Python floats are modelled as exact fractions [num, den] in lowest     *)
(* terms.                                                                  *)
(***************************************************************************)
EXTENDS Integers, Sequences, FiniteSets, TLC

\* ------------------------------------------------------------------ bounds
\* the highest tick count of /proc/stat
MaxTick == 2
\* the highest CPU time of one process
MaxJiffy == 1
\* the highest byte count of /proc/net/dev
MaxByte == 2
\* the highest rchar / wchar, in steps
MaxIo == 1
\* the last second of the clock under I1
MaxTime == 4
\* the last second of the clock without I1
MaxClock == 2
\* the highest total of /proc/stat process_monitor reads without I1
MaxTotal == 1
\* the highest kB count of /proc/meminfo
MaxMem == 6
\* the highest pid
MaxPid == 2
\* the most capture threads alive at once
MaxWorkers == 2
\* the most events libnethogs delivers
MaxEvents == 3
\* the threads that call calc_process_cpu_percent at once
MaxThreads == 2
\* the most lines of a log file
MaxLines == 3
\* the most lines of /proc/net/dev
MaxDevices == 2
\* the most lines asked of get_log_head and get_log_tail
MaxN == 3

\* ------------------------------------------------------- program constants
calc_func_interval == 2
KB == 1024
MB == 1000000
avg_line_length == 74

Ticks == 0..MaxTick
NetBytes == 0..MaxByte
\* rchar / wchar in steps of 26000 bytes, 0.026 MB
IoBytes == {k * 26000 : k \in 0..MaxIo}
Pids == 1..MaxPid
Intervals == {0, calc_func_interval}

VARIABLES
    prev_cpu_work_time,         \* corelib.py globals
    prev_cpu_total_time,
    prev_net_receive_byte,
    prev_net_send_byte,
    prev_net_time,
    watch_pid,                  \* all_process_info_dict["watch_pid"]
    process_info,               \* all_process_info_dict["process_info"]
    all_prev_cpu_total_time,    \* all_process_info_dict["prev_cpu_total_time"]
    libnethogs_thread,          \* all_process_info_dict["libnethogs_thread"]
    libnethogs_thread_install,  \* all_process_info_dict["libnethogs_thread_install"]
    libnethogs_data,            \* all_process_info_dict["libnethogs_data"]
    libnethogs,                 \* all_process_info_dict["libnethogs"]
    workers,                    \* the threads inside run_monitor_loop
    handler,                    \* signal_handler is installed for SIGINT / SIGTERM
    events,                     \* the events libnethogs delivered, oldest first
                                \* (kept when the program is the traffic monitor)
    now,                        \* under I1: the value no later time() can return
    I1,                         \* the environment keeps invariant I1 in this run
    raw,                        \* under I1: the value last read of every raw counter
    module,                     \* the module(s) the running program uses
    threads,                    \* the threads inside calc_process_cpu_percent
    armed,                      \* the (scope, kind) whose stored previous sample was read
                                \* from the raw counter source (not the initial 0 / None)
    pc,                         \* the caller's position: the function it is in
    ret                         \* what the last finished call returned or raised

corelib_vars == <<prev_cpu_work_time, prev_cpu_total_time, prev_net_receive_byte,
                  prev_net_send_byte, prev_net_time>>
process_vars == <<watch_pid, process_info, all_prev_cpu_total_time>>
nethogs_vars == <<libnethogs_thread, libnethogs_thread_install, libnethogs_data,
                  libnethogs, workers, handler, events>>
vars == <<corelib_vars, process_vars, nethogs_vars, now, I1, raw, module, threads,
          armed, pc, ret>>

\* ------------------------------------------------------------- arithmetic
Abs(x) == IF x < 0 THEN -x ELSE x

RECURSIVE GCD(_, _)
GCD(a, b) == IF b = 0 THEN a ELSE GCD(b, a % b)

\* A float: the fraction n/d in lowest terms with a positive denominator.
Frac(n, d) ==
    LET g == GCD(Abs(n), Abs(d))
        s == IF d < 0 THEN -1 ELSE 1
    IN  [num |-> s * (n \div g), den |-> s * (d \div g)]

\* Python raises ZeroDivisionError for x / 0.0: the result without a value.
ZeroDivisionError == [num |-> 0, den |-> 0]

Div(n, d) == IF d = 0 THEN ZeroDivisionError ELSE Frac(n, d)

\* ---------------------------------------------------------------- results
\* pc: the function the caller is in, its pid argument, and whether this call
\* took the warm-up branch
Idle == [fn |-> "idle", pid |-> 0, warm |-> FALSE]
Exited == [fn |-> "exit", pid |-> 0, warm |-> FALSE]
At(f, p, w) == [fn |-> f, pid |-> p, warm |-> w]

\* ret: the outcome of the call that finished last, with the raw sample it
\* read last (NoSample when it read none)
NoSample == << >>
NoReturn == [fn |-> "none", pid |-> 0, warm |-> FALSE, kind |-> "none",
             exc |-> "none", sample |-> NoSample, val |-> 0]
Return(f, p, w, s, v) == [fn |-> f, pid |-> p, warm |-> w, kind |-> "value",
                          exc |-> "none", sample |-> s, val |-> v]
Raise(f, p, w, s, e) == [fn |-> f, pid |-> p, warm |-> w, kind |-> "raise",
                         exc |-> e, sample |-> s, val |-> 0]

\* time(): the wall clock, in seconds.  Under I1 every value is above `now';
\* without I1 the clock can be set to any value between two reads.  (Under I1
\* a range bounds the number of increases, so it is the wider one; without I1
\* a narrow range already gives every order of two values.)
TimeReads == IF I1 THEN {t \in 1..MaxTime : t > now} ELSE 1..MaxClock

\* sleep(interval) after time() returned t: under I1 the next time() is at
\* least t + interval, and above t
Slept(t, interval) ==
    IF I1 THEN (IF interval > 0 THEN t + interval - 1 ELSE t) ELSE now

\* time() returned t
Read_time(t) == IF I1 THEN t ELSE now

\* ------------------------------------------------- corelib.py: system CPU
\* /proc/stat: (total, work) with work a part of total.
CpuTimes == {tw \in Ticks \X Ticks : tw[2] <= tw[1]}

\* a variant that divides by the fresh total, not by its increase
cpu_percent_of_total(prev_work, prev_total, cur_work, cur_total) ==
    Div((cur_work - prev_work) * 100, cur_total)

\* (current_work_time - prev_cpu_work_time) * 100.0 / (current_total_time - prev_cpu_total_time)
cpu_percent(prev_work, prev_total, cur_work, cur_total) ==
    Div((cur_work - prev_work) * 100, cur_total - prev_total)

\* get_total_cpu_time(): what a read of /proc/stat can return
StatReads == {tw \in CpuTimes : I1 => (tw[1] >= raw.total /\ tw[2] >= raw.work)}

SeenStat(tw) == IF I1 THEN [raw EXCEPT !.total = tw[1], !.work = tw[2]] ELSE raw

\* a variant of the warm-up that sleeps without reading a baseline
calc_cpu_percent_no_baseline ==
    /\ pc = Idle
    /\ pc' = At("calc_cpu_percent", 0, prev_cpu_work_time = 0)
    /\ UNCHANGED <<corelib_vars, process_vars, nethogs_vars, now, I1, raw, module, threads,
                   armed, ret>>

\* calc_cpu_percent up to and including sleep(interval)
calc_cpu_percent_enter ==
    /\ pc = Idle
    /\ IF prev_cpu_work_time = 0
       THEN \E tw \in StatReads :
               /\ prev_cpu_total_time' = tw[1]
               /\ prev_cpu_work_time' = tw[2]
               /\ raw' = SeenStat(tw)
               /\ armed' = armed \cup {<<0, "cpu">>}
               /\ pc' = At("calc_cpu_percent", 0, TRUE)
       ELSE /\ UNCHANGED <<prev_cpu_total_time, prev_cpu_work_time, raw, armed>>
            /\ pc' = At("calc_cpu_percent", 0, FALSE)
    /\ UNCHANGED <<prev_net_receive_byte, prev_net_send_byte, prev_net_time,
                   process_vars, nethogs_vars, now, I1, module, threads, ret>>

\* a variant that keeps the stored sample when the fresh work time is lower
calc_cpu_percent_sample_keeping ==
    /\ pc.fn = "calc_cpu_percent"
    /\ \E tw \in StatReads :
          LET p == cpu_percent(prev_cpu_work_time, prev_cpu_total_time, tw[2], tw[1])
          IN  /\ raw' = SeenStat(tw)
              /\ IF p = ZeroDivisionError
                 THEN /\ ret' = Raise("calc_cpu_percent", 0, pc.warm, tw, "ZeroDivisionError")
                      /\ UNCHANGED <<prev_cpu_total_time, prev_cpu_work_time, armed>>
                 ELSE /\ ret' = Return("calc_cpu_percent", 0, pc.warm, tw, p)
                      /\ IF tw[2] < prev_cpu_work_time
                         THEN UNCHANGED <<prev_cpu_total_time, prev_cpu_work_time>>
                         ELSE /\ prev_cpu_total_time' = tw[1]
                              /\ prev_cpu_work_time' = tw[2]
                      /\ armed' = armed \cup {<<0, "cpu">>}
    /\ pc' = Idle
    /\ UNCHANGED <<prev_net_receive_byte, prev_net_send_byte, prev_net_time,
                   process_vars, nethogs_vars, now, I1, module, threads>>

\* calc_cpu_percent from the second get_total_cpu_time() to the return
calc_cpu_percent_sample ==
    /\ pc.fn = "calc_cpu_percent"
    /\ \E tw \in StatReads :
          LET p == cpu_percent(prev_cpu_work_time, prev_cpu_total_time, tw[2], tw[1])
          IN  /\ raw' = SeenStat(tw)
              /\ IF p = ZeroDivisionError
                 THEN /\ ret' = Raise("calc_cpu_percent", 0, pc.warm, tw, "ZeroDivisionError")
                      /\ UNCHANGED <<prev_cpu_total_time, prev_cpu_work_time, armed>>
                 ELSE /\ ret' = Return("calc_cpu_percent", 0, pc.warm, tw, p)
                      /\ prev_cpu_total_time' = tw[1]
                      /\ prev_cpu_work_time' = tw[2]
                      /\ armed' = armed \cup {<<0, "cpu">>}
    /\ pc' = Idle
    /\ UNCHANGED <<prev_net_receive_byte, prev_net_send_byte, prev_net_time,
                   process_vars, nethogs_vars, now, I1, module, threads>>

\* ------------------------------------------------ corelib.py: network speed
\* /proc/net/dev: (receive_bytes, send_bytes) summed over the devices
NetDevData == NetBytes \X NetBytes

\* a variant in bytes per second
net_speed_bytes(prev_byte, cur_byte, prev_time, cur_time) ==
    Div(cur_byte - prev_byte, cur_time - prev_time)

\* (current - prev) / 1024.0 / (current_net_time - prev_net_time)
net_speed(prev_byte, cur_byte, prev_time, cur_time) ==
    Div(cur_byte - prev_byte, KB * (cur_time - prev_time))

\* get_net_dev_data(): what a read of /proc/net/dev can return
NetDevReads == {rs \in NetDevData : I1 => (rs[1] >= raw.recv /\ rs[2] >= raw.sent)}

SeenNetDev(rs) == IF I1 THEN [raw EXCEPT !.recv = rs[1], !.sent = rs[2]] ELSE raw

\* calc_net_speed up to and including sleep(interval)
calc_net_speed_enter ==
    /\ pc = Idle
    /\ IF prev_net_receive_byte = 0
       THEN \E rs \in NetDevReads, t \in TimeReads, interval \in Intervals :
               /\ Slept(t, interval) < MaxTime
               /\ prev_net_receive_byte' = rs[1]
               /\ prev_net_send_byte' = rs[2]
               /\ raw' = SeenNetDev(rs)
               /\ armed' = armed \cup {<<0, "net">>}
               /\ prev_net_time' = t
               /\ now' = Slept(t, interval)
               /\ pc' = At("calc_net_speed", 0, TRUE)
       ELSE /\ UNCHANGED <<prev_net_receive_byte, prev_net_send_byte, prev_net_time,
                           raw, now, armed>>
            /\ pc' = At("calc_net_speed", 0, FALSE)
    /\ UNCHANGED <<prev_cpu_total_time, prev_cpu_work_time,
                   process_vars, nethogs_vars, I1, module, threads, ret>>

\* calc_net_speed from the second get_net_dev_data() to the return
calc_net_speed_sample ==
    /\ pc.fn = "calc_net_speed"
    /\ \E rs \in NetDevReads, t \in TimeReads :
          LET download_speed == net_speed(prev_net_receive_byte, rs[1], prev_net_time, t)
              upload_speed == net_speed(prev_net_send_byte, rs[2], prev_net_time, t)
          IN  /\ raw' = SeenNetDev(rs)
              /\ now' = Read_time(t)
              /\ IF download_speed = ZeroDivisionError
                 THEN /\ ret' = Raise("calc_net_speed", 0, pc.warm, <<rs[1], rs[2], t>>,
                                      "ZeroDivisionError")
                      /\ UNCHANGED <<prev_net_receive_byte, prev_net_send_byte,
                                     prev_net_time, armed>>
                 ELSE /\ ret' = Return("calc_net_speed", 0, pc.warm, <<rs[1], rs[2], t>>,
                                       <<download_speed, upload_speed>>)
                      /\ prev_net_receive_byte' = rs[1]
                      /\ prev_net_send_byte' = rs[2]
                      /\ prev_net_time' = t
                      /\ armed' = armed \cup {<<0, "net">>}
    /\ pc' = Idle
    /\ UNCHANGED <<prev_cpu_total_time, prev_cpu_work_time,
                   process_vars, nethogs_vars, I1, module, threads>>

\* ------------------------------------------------- corelib.py: memory
\* /proc/meminfo: [MemTotal, MemFree, MemAvailable]
MemInfo == {m \in (1..MaxMem) \X (0..MaxMem) \X (0..MaxMem) :
               m[2] <= m[1] /\ m[3] <= m[1]}

\* a variant that takes MemFree for the unused memory
mem_percent_free(MemTotal, MemFree, MemAvailable) ==
    Div((MemTotal - MemFree) * 100, MemTotal)

\* (MemTotal - MemAvailable) * 100.0 / MemTotal
mem_percent(MemTotal, MemFree, MemAvailable) ==
    Div((MemTotal - MemAvailable) * 100, MemTotal)

calc_mem_percent ==
    /\ pc = Idle
    /\ \E m \in MemInfo :
          /\ ret' = Return("calc_mem_percent", 0, FALSE, m,
                        mem_percent(m[1], m[2], m[3]))
    /\ UNCHANGED <<corelib_vars, process_vars, nethogs_vars, now, I1, module, threads, raw,
                   armed, pc>>

\* --------------------------------------- process_monitor.py: the registry
\* deepcopy(process_info_dict); None is -1 for a tick count and << >> for a pair
None == 0 - 1
NoneIo == << >>
process_info_dict == [pre_time |-> 0, prev_cpu_time |-> None, prev_io |-> NoneIo]

\* str(pid), the key of process_info and libnethogs_data
str(pid) == ToString(pid)

\* the exception wrap_process_exceptions raises for a failed open()
wrap_process_exceptions(errno) ==
    CASE errno = "ENOENT" -> "ProcessNotFound"
      [] errno = "EACCES" -> "PermissionDenied"
      [] OTHER -> errno

Read(v) == [ok |-> TRUE, exc |-> "none", v |-> v]
Fail(errno) == [ok |-> FALSE, exc |-> wrap_process_exceptions(errno), v |-> 0]

\* get_process_cpu_time(pid): utime+stime+cutime+cstime, or the process is gone
ProcessCpuTimes(pid) ==
    {Read(c) : c \in {x \in 0..MaxJiffy : I1 => x >= raw.cpu[pid]}}
        \cup {Fail("ENOENT")}

\* get_total_cpu_time()[0] of sys_monitor: the total of /proc/stat
TotalReads == IF I1 THEN {t \in Ticks : t >= raw.total} ELSE 0..MaxTotal

\* get_process_io(pid): [rchar, wchar], or the process is gone, or no permission
ProcessIo(pid) ==
    {Read(rw) : rw \in {x \in IoBytes \X IoBytes :
                           I1 => (x[1] >= raw.io[pid][1] /\ x[2] >= raw.io[pid][2])}}
        \cup {Fail("ENOENT"), Fail("EACCES")}

\* if int(pid) not in watch_pid: add it, with a fresh copy of process_info_dict
Watched(pid) ==
    IF pid \notin watch_pid THEN watch_pid \cup {pid} ELSE watch_pid

\* a variant that gives the pid a fresh entry on every call
Registered_always(pid) ==
    [k \in DOMAIN process_info \cup {str(pid)} |->
        IF k = str(pid) THEN process_info_dict ELSE process_info[k]]

Registered(pid) ==
    IF pid \notin watch_pid
    THEN [k \in DOMAIN process_info \cup {str(pid)} |->
             IF k = str(pid) THEN process_info_dict ELSE process_info[k]]
    ELSE process_info

\* ------------------------------------- process_monitor.py: process CPU
\* a variant that subtracts the fresh process time from the previous one
process_cpu_percent_reversed(prev_cpu_time, prev_total, cur_cpu_time, cur_total) ==
    Div((prev_cpu_time - cur_cpu_time) * 100, cur_total - prev_total)

\* (current_process_cpu_time - prev_cpu_time) * 100.0
\*     / (current_cpu_total_time - all_process_info_dict["prev_cpu_total_time"])
process_cpu_percent(prev_cpu_time, prev_total, cur_cpu_time, cur_total) ==
    Div((cur_cpu_time - prev_cpu_time) * 100, cur_total - prev_total)

SeenProcess(total, pid, c) ==
    IF I1
    THEN [raw EXCEPT !.total = total, !.cpu[pid] = IF c.ok THEN c.v ELSE @]
    ELSE raw

\* calc_process_cpu_percent up to and including sleep(interval)
calc_process_cpu_percent_enter(pid) ==
    /\ pc = Idle
    /\ watch_pid' = Watched(pid)
    /\ LET info == Registered(pid)
       IN  IF str(pid) \notin DOMAIN info
           THEN /\ ret' = Raise("calc_process_cpu_percent", pid, FALSE, NoSample,
                              "KeyError")
                /\ process_info' = info
                /\ UNCHANGED <<all_prev_cpu_total_time, raw, armed, pc>>
           ELSE IF info[str(pid)].prev_cpu_time = None
           THEN \E total \in TotalReads, c \in ProcessCpuTimes(pid) :
                   /\ all_prev_cpu_total_time' = total
                   /\ raw' = SeenProcess(total, pid, c)
                   /\ IF c.ok
                      THEN /\ process_info' =
                                [info EXCEPT ![str(pid)].prev_cpu_time = c.v]
                           /\ armed' = armed \cup {<<0, "total">>, <<pid, "cpu">>}
                           /\ pc' = At("calc_process_cpu_percent", pid, TRUE)
                           /\ UNCHANGED ret
                      ELSE /\ process_info' = info
                           /\ armed' = armed \cup {<<0, "total">>}
                           /\ ret' = Raise("calc_process_cpu_percent", pid, TRUE,
                                         NoSample, c.exc)
                           /\ UNCHANGED pc
           ELSE /\ process_info' = info
                /\ pc' = At("calc_process_cpu_percent", pid, FALSE)
                /\ UNCHANGED <<all_prev_cpu_total_time, raw, armed, ret>>
    /\ UNCHANGED <<corelib_vars, nethogs_vars, now, I1, module, threads>>

\* calc_process_cpu_percent from the second get_total_cpu_time() to the return
calc_process_cpu_percent_sample ==
    /\ pc.fn = "calc_process_cpu_percent"
    /\ \E total \in TotalReads, c \in ProcessCpuTimes(pc.pid) :
          LET pid == pc.pid
              p == process_cpu_percent(process_info[str(pid)].prev_cpu_time,
                                       all_prev_cpu_total_time, c.v, total)
          IN  /\ raw' = SeenProcess(total, pid, c)
              /\ IF ~c.ok
                 THEN /\ ret' = Raise("calc_process_cpu_percent", pid, pc.warm,
                                    NoSample, c.exc)
                      /\ UNCHANGED <<process_info, all_prev_cpu_total_time, armed>>
                 ELSE IF p = ZeroDivisionError
                 THEN /\ ret' = Raise("calc_process_cpu_percent", pid, pc.warm,
                                    <<total, c.v>>, "ZeroDivisionError")
                      /\ UNCHANGED <<process_info, all_prev_cpu_total_time, armed>>
                 ELSE /\ ret' = Return("calc_process_cpu_percent", pid, pc.warm,
                                     <<total, c.v>>, p)
                      /\ process_info' =
                           [process_info EXCEPT ![str(pid)].prev_cpu_time = c.v]
                      /\ all_prev_cpu_total_time' = total
                      /\ armed' = armed \cup {<<0, "total">>, <<pid, "cpu">>}
    /\ pc' = Idle
    /\ UNCHANGED <<corelib_vars, watch_pid, nethogs_vars, now, I1, module, threads>>

\* ------------------------------------- process_monitor.py: process disk IO
\* round(x, 2) of Python 2: to the nearest hundredth, halves away from zero
round2(x) ==
    LET h == (2 * 100 * Abs(x.num) + x.den) \div (2 * x.den)
    IN  Frac(IF x.num < 0 THEN -h ELSE h, 100)

\* a variant with the binary megabyte, 1024 ** 2
io_MiBs(prev_char, cur_char, pre_time, current_time) ==
    Div(cur_char - prev_char, KB * KB * (current_time - pre_time))

\* (current - prev_io) / 1000. ** 2 / (current_time - pre_time)
io_MBs(prev_char, cur_char, pre_time, current_time) ==
    Div(cur_char - prev_char, MB * (current_time - pre_time))

SeenIo(pid, io) ==
    IF I1 /\ io.ok THEN [raw EXCEPT !.io[pid] = io.v] ELSE raw

\* calc_process_cpu_io up to and including sleep(interval)
calc_process_cpu_io_enter(pid) ==
    /\ pc = Idle
    /\ watch_pid' = Watched(pid)
    /\ LET info == Registered(pid)
       IN  IF str(pid) \notin DOMAIN info
           THEN /\ ret' = Raise("calc_process_cpu_io", pid, FALSE, NoSample, "KeyError")
                /\ process_info' = info
                /\ UNCHANGED <<raw, now, armed, pc>>
           ELSE IF info[str(pid)].prev_io = NoneIo
           THEN \E io \in ProcessIo(pid) :
                   /\ raw' = SeenIo(pid, io)
                   /\ IF io.ok
                      THEN \E t \in TimeReads, interval \in Intervals :
                              /\ Slept(t, interval) < MaxTime
                              /\ process_info' =
                                   [info EXCEPT ![str(pid)].prev_io = io.v,
                                                ![str(pid)].pre_time = t]
                              /\ now' = Slept(t, interval)
                              /\ armed' = armed \cup {<<pid, "io">>}
                              /\ pc' = At("calc_process_cpu_io", pid, TRUE)
                              /\ UNCHANGED ret
                      ELSE /\ process_info' = info
                           /\ ret' = Raise("calc_process_cpu_io", pid, TRUE, NoSample,
                                         io.exc)
                           /\ UNCHANGED <<now, armed, pc>>
           ELSE /\ process_info' = info
                /\ pc' = At("calc_process_cpu_io", pid, FALSE)
                /\ UNCHANGED <<raw, now, armed, ret>>
    /\ UNCHANGED <<corelib_vars, all_prev_cpu_total_time, nethogs_vars, I1,
                   module, threads>>

\* calc_process_cpu_io from current_time = time() to the return
calc_process_cpu_io_sample ==
    /\ pc.fn = "calc_process_cpu_io"
    /\ \E t \in TimeReads, io \in ProcessIo(pc.pid) :
          LET pid == pc.pid
              e == process_info[str(pid)]
              cur == IF io.ok THEN io.v ELSE <<0, 0>>
              read_MBs == io_MBs(e.prev_io[1], cur[1], e.pre_time, t)
              write_MBs == io_MBs(e.prev_io[2], cur[2], e.pre_time, t)
          IN  /\ now' = Read_time(t)
              /\ raw' = SeenIo(pid, io)
              /\ IF ~io.ok
                 THEN /\ ret' = Raise("calc_process_cpu_io", pid, pc.warm, NoSample, io.exc)
                      /\ UNCHANGED <<process_info, armed>>
                 ELSE IF read_MBs = ZeroDivisionError
                 THEN /\ ret' = Raise("calc_process_cpu_io", pid, pc.warm,
                                    <<cur[1], cur[2], t>>, "ZeroDivisionError")
                      /\ UNCHANGED <<process_info, armed>>
                 ELSE /\ ret' = Return("calc_process_cpu_io", pid, pc.warm,
                                       <<cur[1], cur[2], t>>,
                                       <<round2(read_MBs), round2(write_MBs)>>)
                      /\ process_info' =
                           [process_info EXCEPT ![str(pid)].prev_io = cur,
                                                ![str(pid)].pre_time = t]
                      /\ armed' = armed \cup {<<pid, "io">>}
    /\ pc' = Idle
    /\ UNCHANGED <<corelib_vars, watch_pid, all_prev_cpu_total_time, nethogs_vars,
                   I1, module, threads>>

\* ------------------------------------- process_monitor.py: nethogs feed
\* Action.MAP.get(action, "Unknown")
ActionName(action) ==
    CASE action = 1 -> "SET"
      [] action = 2 -> "REMOVE"
      [] OTHER -> "Unknown"

\* the actions libnethogs can pass to the callback, and one it should not
Actions == {1, 2, 3}

\* libnethogs_data.get(str(pid), {}): the record, or the empty dict
EmptyDict == {}
Get(data, key) == IF key \in DOMAIN data THEN {data[key]} ELSE EmptyDict

\* the program is the traffic monitor: the delivered events are recorded
Recording == module = "traffic"

\* process_net_data, built from the event
Record(action, pid) == [pid |-> pid, action |-> ActionName(action)]

\* a variant that stores the record of every pid, watched or not
network_activity_callback_any(action, pid) ==
    /\ workers > 0
    /\ Recording => Len(events) < MaxEvents
    /\ libnethogs_data' =
          [k \in DOMAIN libnethogs_data \cup {str(pid)} |->
              IF k = str(pid)
              THEN Record(action, pid)
              ELSE libnethogs_data[k]]
    /\ events' = IF Recording
                 THEN Append(events, [pid |-> pid, action |-> action,
                                      watched |-> pid \in watch_pid])
                 ELSE events
    /\ UNCHANGED <<corelib_vars, process_vars, libnethogs_thread,
                   libnethogs_thread_install, libnethogs, workers, handler,
                   now, I1, raw, module, threads, armed, pc, ret>>

\* a variant that keeps the first record of a pid and drops the later ones
network_activity_callback_first(action, pid) ==
    /\ workers > 0
    /\ Recording => Len(events) < MaxEvents
    /\ IF pid \in watch_pid /\ str(pid) \notin DOMAIN libnethogs_data
       THEN libnethogs_data' =
              [k \in DOMAIN libnethogs_data \cup {str(pid)} |->
                  IF k = str(pid)
                  THEN Record(action, pid)
                  ELSE libnethogs_data[k]]
       ELSE UNCHANGED libnethogs_data
    /\ events' = IF Recording
                 THEN Append(events, [pid |-> pid, action |-> action,
                                      watched |-> pid \in watch_pid])
                 ELSE events
    /\ UNCHANGED <<corelib_vars, process_vars, libnethogs_thread,
                   libnethogs_thread_install, libnethogs, workers, handler,
                   now, I1, raw, module, threads, armed, pc, ret>>

\* network_activity_callback(action, data), on a capture thread
network_activity_callback(action, pid) ==
    /\ workers > 0
    /\ Recording => Len(events) < MaxEvents
    /\ IF pid \in watch_pid
       THEN libnethogs_data' =
              [k \in DOMAIN libnethogs_data \cup {str(pid)} |->
                  IF k = str(pid)
                  THEN Record(action, pid)
                  ELSE libnethogs_data[k]]
       ELSE UNCHANGED libnethogs_data
    /\ events' = IF Recording
                 THEN Append(events, [pid |-> pid, action |-> action,
                                      watched |-> pid \in watch_pid])
                 ELSE events
    /\ UNCHANGED <<corelib_vars, process_vars, libnethogs_thread,
                   libnethogs_thread_install, libnethogs, workers, handler,
                   now, I1, raw, module, threads, armed, pc, ret>>

\* a variant that takes the monitor for stopped whatever the handle is
Started_never == FALSE

\* all_process_info_dict["libnethogs_thread"] holds a thread
Started == libnethogs_thread # "None"

\* get_process_net_info(pid), with is_libnethogs_install() and
\* init_nethogs_thread() when they are called
get_process_net_info(pid) ==
    /\ pc = Idle
    /\ \E installed \in BOOLEAN, loaded \in BOOLEAN :
          IF ~libnethogs_thread_install /\ ~installed
          THEN \* print "Error : libnethogs is not installed!"; exit(-1)
               /\ ret' = Raise("get_process_net_info", pid, FALSE, NoSample,
                             "SystemExit")
               /\ pc' = Exited
               /\ UNCHANGED <<watch_pid, nethogs_vars>>
          ELSE /\ libnethogs_thread_install' = TRUE
               /\ watch_pid' = watch_pid \cup {pid}
               /\ UNCHANGED <<libnethogs_data, events, pc>>
               /\ IF ~Started
                  THEN \* init_nethogs_thread(): signal.signal, then CDLL
                       /\ handler' = TRUE
                       /\ IF loaded
                          THEN /\ workers < MaxWorkers
                               /\ libnethogs' = "CDLL"
                               /\ libnethogs_thread' = "Thread"
                               /\ workers' = workers + 1
                               /\ ret' = Return("get_process_net_info", pid, FALSE,
                                                NoSample,
                                                Get(libnethogs_data, str(pid)))
                          ELSE \* ctypes.CDLL(LIBRARY_NAME) raises OSError
                               /\ ret' = Raise("get_process_net_info", pid, FALSE,
                                               NoSample, "OSError")
                               /\ UNCHANGED <<libnethogs, libnethogs_thread, workers>>
                  ELSE /\ ret' = Return("get_process_net_info", pid, FALSE, NoSample,
                                        Get(libnethogs_data, str(pid)))
                       /\ UNCHANGED <<libnethogs, libnethogs_thread, workers, handler>>
    /\ UNCHANGED <<corelib_vars, process_info, all_prev_cpu_total_time,
                   now, I1, raw, module, threads, armed>>

\* a variant that also empties the traffic map
signal_handler_purging ==
    /\ handler
    /\ pc = Idle
    /\ IF libnethogs = "None"
       THEN /\ ret' = Raise("signal_handler", 0, FALSE, NoSample, "AttributeError")
            /\ UNCHANGED <<libnethogs_thread, libnethogs_data>>
       ELSE /\ libnethogs_thread' = "None"
            /\ libnethogs_data' = [k \in {} |-> Record(1, 1)]
            /\ ret' = Return("signal_handler", 0, FALSE, NoSample, EmptyDict)
    /\ UNCHANGED <<corelib_vars, process_vars, libnethogs_thread_install,
                   libnethogs, workers, handler, events,
                   now, I1, raw, module, threads, armed, pc>>

\* signal_handler(signal, frame), run in the main thread between two calls
signal_handler ==
    /\ handler
    /\ pc = Idle
    /\ IF libnethogs = "None"
       THEN \* None has no attribute nethogsmonitor_breakloop
            /\ ret' = Raise("signal_handler", 0, FALSE, NoSample, "AttributeError")
            /\ UNCHANGED libnethogs_thread
       ELSE /\ libnethogs_thread' = "None"
            /\ ret' = Return("signal_handler", 0, FALSE, NoSample, EmptyDict)
    /\ UNCHANGED <<corelib_vars, process_vars, libnethogs_thread_install,
                   libnethogs_data, libnethogs, workers, handler, events,
                   now, I1, raw, module, threads, armed, pc>>

\* LoopStatus: OK, FAILURE, NO_DEVICE
LoopStatus == {0, 1, 2}

\* LoopStatus.MAP, for the values it has
LoopStatusName(rc) ==
    CASE rc = 0 -> "OK"
      [] rc = 1 -> "FAILURE"
      [] rc = 2 -> "NO_DEVICE"

\* run_monitor_loop: nethogsmonitor_loop_devices returns (after a break
\* request, or with FAILURE / NO_DEVICE) and the capture thread ends
run_monitor_loop_return(rc) ==
    /\ workers > 0
    /\ rc \in LoopStatus
    /\ workers' = workers - 1
    /\ UNCHANGED <<corelib_vars, process_vars, libnethogs_thread,
                   libnethogs_thread_install, libnethogs_data, libnethogs,
                   handler, events, now, I1, raw, module, threads, armed, pc, ret>>

\* ------------------- process_monitor.py: calc_process_cpu_percent by threads
\* Several threads of one program call calc_process_cpu_percent; the
\* interpreter switches between them from one statement to the next.  A thread
\* is at the line it executes next and holds the locals of its call.
Tids == 1..MaxThreads

\* the pid the threads sample, all the same one
ThreadPids == {MaxPid}

ThreadIdle == [at |-> "idle", pid |-> 0, warm |-> FALSE, total |-> 0, cpu |-> 0,
               p |-> Frac(0, 1)]

Goto(t, line) == [threads EXCEPT ![t].at = line]

SeenTotal(total) == IF I1 THEN [raw EXCEPT !.total = total] ELSE raw

SeenCpu(pid, c) == IF I1 /\ c.ok THEN [raw EXCEPT !.cpu[pid] = c.v] ELSE raw

\* the statements that leave the shared dictionaries alone
ThreadLocal ==
    UNCHANGED <<corelib_vars, nethogs_vars, now, I1, module, armed, pc>>

\* a thread calls calc_process_cpu_percent(pid)
calc_process_cpu_percent_call(t, pid) ==
    /\ module = "threads"
    /\ threads[t].at = "idle"
    /\ threads' = [threads EXCEPT ![t] = [ThreadIdle EXCEPT !.at = "L352", !.pid = pid]]
    /\ UNCHANGED <<process_vars, raw, ret>>
    /\ ThreadLocal

\* 352: if int(pid) not in all_process_info_dict["watch_pid"]
calc_process_cpu_percent_L352(t) ==
    /\ threads[t].at = "L352"
    /\ threads' = Goto(t, IF threads[t].pid \notin watch_pid THEN "L353" ELSE "L356")
    /\ UNCHANGED <<process_vars, raw, ret>>
    /\ ThreadLocal

\* 353: all_process_info_dict["watch_pid"].add(int(pid))
calc_process_cpu_percent_L353(t) ==
    /\ threads[t].at = "L353"
    /\ watch_pid' = watch_pid \cup {threads[t].pid}
    /\ threads' = Goto(t, "L354")
    /\ UNCHANGED <<process_info, all_prev_cpu_total_time, raw, ret>>
    /\ ThreadLocal

\* 354: all_process_info_dict["process_info"][str(pid)] = deepcopy(process_info_dict)
calc_process_cpu_percent_L354(t) ==
    /\ threads[t].at = "L354"
    /\ process_info' =
          [k \in DOMAIN process_info \cup {str(threads[t].pid)} |->
              IF k = str(threads[t].pid) THEN process_info_dict ELSE process_info[k]]
    /\ threads' = Goto(t, "L356")
    /\ UNCHANGED <<watch_pid, all_prev_cpu_total_time, raw, ret>>
    /\ ThreadLocal

\* 356: if all_process_info_dict["process_info"][str(pid)]["prev_cpu_time"] is None
calc_process_cpu_percent_L356(t) ==
    /\ threads[t].at = "L356"
    /\ LET pid == threads[t].pid
       IN  IF str(pid) \notin DOMAIN process_info
           THEN /\ ret' = Raise("calc_process_cpu_percent", pid, FALSE, NoSample,
                              "KeyError")
                /\ threads' = [threads EXCEPT ![t] = ThreadIdle]
           ELSE IF process_info[str(pid)].prev_cpu_time = None
           THEN /\ threads' = [threads EXCEPT ![t].at = "L357", ![t].warm = TRUE]
                /\ UNCHANGED ret
           ELSE /\ threads' = Goto(t, "L361")
                /\ UNCHANGED ret
    /\ UNCHANGED <<process_vars, raw>>
    /\ ThreadLocal

\* 357: all_process_info_dict["prev_cpu_total_time"] = get_total_cpu_time()[0]
calc_process_cpu_percent_L357(t) ==
    /\ threads[t].at = "L357"
    /\ \E total \in TotalReads :
          /\ all_prev_cpu_total_time' = total
          /\ raw' = SeenTotal(total)
    /\ threads' = Goto(t, "L358")
    /\ UNCHANGED <<watch_pid, process_info, ret>>
    /\ ThreadLocal

\* 358-359: ...["prev_cpu_time"] = get_process_cpu_time(pid); sleep(interval)
calc_process_cpu_percent_L358(t) ==
    /\ threads[t].at = "L358"
    /\ LET pid == threads[t].pid
       IN  \E c \in ProcessCpuTimes(pid) :
              /\ raw' = SeenCpu(pid, c)
              /\ IF c.ok
                 THEN /\ process_info' =
                           [process_info EXCEPT ![str(pid)].prev_cpu_time = c.v]
                      /\ threads' = Goto(t, "L361")
                      /\ UNCHANGED ret
                 ELSE /\ ret' = Raise("calc_process_cpu_percent", pid, TRUE,
                                    NoSample, c.exc)
                      /\ threads' = [threads EXCEPT ![t] = ThreadIdle]
                      /\ UNCHANGED process_info
    /\ UNCHANGED <<watch_pid, all_prev_cpu_total_time>>
    /\ ThreadLocal

\* 361: current_cpu_total_time = get_total_cpu_time()[0]
calc_process_cpu_percent_L361(t) ==
    /\ threads[t].at = "L361"
    /\ \E total \in TotalReads :
          /\ threads' = [threads EXCEPT ![t].at = "L362", ![t].total = total]
          /\ raw' = SeenTotal(total)
    /\ UNCHANGED <<process_vars, ret>>
    /\ ThreadLocal

\* 362: current_process_cpu_time = get_process_cpu_time(pid)
calc_process_cpu_percent_L362(t) ==
    /\ threads[t].at = "L362"
    /\ LET pid == threads[t].pid
       IN  \E c \in ProcessCpuTimes(pid) :
              /\ raw' = SeenCpu(pid, c)
              /\ IF c.ok
                 THEN /\ threads' = [threads EXCEPT ![t].at = "L363", ![t].cpu = c.v]
                      /\ UNCHANGED ret
                 ELSE /\ ret' = Raise("calc_process_cpu_percent", pid,
                                    threads[t].warm, NoSample, c.exc)
                      /\ threads' = [threads EXCEPT ![t] = ThreadIdle]
    /\ UNCHANGED process_vars
    /\ ThreadLocal

\* 363-364: process_cpu_percent = (current_process_cpu_time - ...["prev_cpu_time"])
\*              * 100.0 / (current_cpu_total_time - ...["prev_cpu_total_time"])
calc_process_cpu_percent_L363(t) ==
    /\ threads[t].at = "L363"
    /\ LET pid == threads[t].pid
           prev == process_info[str(pid)].prev_cpu_time
           p == process_cpu_percent(prev, all_prev_cpu_total_time,
                                    threads[t].cpu, threads[t].total)
       IN  IF prev = None
           THEN \* int - None
                /\ ret' = Raise("calc_process_cpu_percent", pid, threads[t].warm,
                              <<threads[t].total, threads[t].cpu>>, "TypeError")
                /\ threads' = [threads EXCEPT ![t] = ThreadIdle]
           ELSE IF p = ZeroDivisionError
           THEN /\ ret' = Raise("calc_process_cpu_percent", pid, threads[t].warm,
                              <<threads[t].total, threads[t].cpu>>,
                              "ZeroDivisionError")
                /\ threads' = [threads EXCEPT ![t] = ThreadIdle]
           ELSE /\ threads' = [threads EXCEPT ![t].at = "L366", ![t].p = p]
                /\ UNCHANGED ret
    /\ UNCHANGED <<process_vars, raw>>
    /\ ThreadLocal

\* 366: ...["process_info"][str(pid)]["prev_cpu_time"] = current_process_cpu_time
calc_process_cpu_percent_L366(t) ==
    /\ threads[t].at = "L366"
    /\ process_info' =
          [process_info EXCEPT ![str(threads[t].pid)].prev_cpu_time = threads[t].cpu]
    /\ threads' = Goto(t, "L367")
    /\ UNCHANGED <<watch_pid, all_prev_cpu_total_time, raw, ret>>
    /\ ThreadLocal

\* 367-369: all_process_info_dict["prev_cpu_total_time"] = current_cpu_total_time;
\*          return process_cpu_percent
calc_process_cpu_percent_L367(t) ==
    /\ threads[t].at = "L367"
    /\ all_prev_cpu_total_time' = threads[t].total
    /\ ret' = Return("calc_process_cpu_percent", threads[t].pid, threads[t].warm,
                     <<threads[t].total, threads[t].cpu>>, threads[t].p)
    /\ threads' = [threads EXCEPT ![t] = ThreadIdle]
    /\ UNCHANGED <<watch_pid, process_info, raw>>
    /\ ThreadLocal

\* ------------------------------------------- corelib.py: /proc/net/dev
\* A line of /proc/net/dev is its text up to the counters, as a sequence of
\* characters, with the received and the sent bytes of a device line.
DevNames == { <<"l", "o">>, <<"e", "t", "h", "0">>, <<"w", "l", "o", "1">> }

HeaderLine == [text |-> <<"f", "a", "c", "e", " ", "|">>, recv |-> 0, sent |-> 0]

DevLine(name, recv, sent) == [text |-> name \o <<":">>, recv |-> recv, sent |-> sent]

NetDevLines ==
    {HeaderLine}
        \cup {DevLine(name, r, s) : name \in DevNames, r \in NetBytes, s \in NetBytes}

RECURSIVE NetDevTables(_)
NetDevTables(k) ==
    IF k = 0
    THEN {<< >>}
    ELSE LET shorter == NetDevTables(k - 1)
         IN  shorter \cup {Append(t, l) : t \in {u \in shorter : Len(u) = k - 1},
                                          l \in NetDevLines}

\* line.count(sub)
Count(text, sub) ==
    Cardinality({i \in 1..(Len(text) - Len(sub) + 1) :
                    SubSeq(text, i, i + Len(sub) - 1) = sub})

\* if line.count(":") and not line.count("lo")
Counted(line) ==
    Count(line.text, <<":">>) # 0 /\ ~(Count(line.text, <<"l", "o">>) # 0)

\* the loop over net_dev.readlines(), from line i on
RECURSIVE net_dev_sum(_, _)
net_dev_sum(table, i) ==
    IF i > Len(table)
    THEN <<0, 0>>
    ELSE LET rest == net_dev_sum(table, i + 1)
         IN  IF Counted(table[i])
             THEN <<table[i].recv + rest[1], table[i].sent + rest[2]>>
             ELSE rest

\* get_net_dev_data()
get_net_dev_data ==
    /\ pc = Idle
    /\ \E table \in NetDevTables(MaxDevices) :
          ret' = Return("get_net_dev_data", 0, FALSE, table, net_dev_sum(table, 1))
    /\ UNCHANGED <<corelib_vars, process_vars, nethogs_vars, now, I1, raw, module,
                   threads, armed, pc>>

\* ------------------------------------------ process_monitor.py: log files
\* A file is the sequence of the lengths of its lines, each line ended by a
\* newline.  An element of a returned list is a line, or the end of one:
\* [line |-> i, chars |-> c] is the last c characters of line i.
LineLens == {0, 73, 74, 100}

RECURSIVE FilesOf(_)
FilesOf(k) ==
    IF k = 0
    THEN {<< >>}
    ELSE LET shorter == FilesOf(k - 1)
         IN  shorter \cup {Append(f, l) : f \in {g \in shorter : Len(g) = k - 1},
                                          l \in LineLens}

Files == FilesOf(MaxLines)

WholeLine(file, i) == [line |-> i, chars |-> file[i]]

\* the loop of get_log_head from line i of the file on, line_count being i - 1
RECURSIVE head_loop(_, _, _, _)
head_loop(file, n, i, res) ==
    IF i > Len(file)
    THEN res
    ELSE LET res1 == Append(res, WholeLine(file, i))
         IN  IF i >= n THEN res1 ELSE head_loop(file, n, i + 1, res1)

\* get_log_head(path, n)
get_log_head ==
    /\ pc = Idle
    /\ \E file \in Files, n \in 0..MaxN :
          ret' = Return("get_log_head", 0, FALSE, <<file, n>>,
                        head_loop(file, n, 1, << >>))
    /\ UNCHANGED <<corelib_vars, process_vars, nethogs_vars, now, I1, raw, module,
                   threads, armed, pc>>

\* the offset of the first character of line i
RECURSIVE LineStart(_, _)
LineStart(file, i) ==
    IF i = 1 THEN 0 ELSE LineStart(file, i - 1) + file[i - 1] + 1

\* the size of the file in bytes
FileSize(file) ==
    IF file = << >> THEN 0 ELSE LineStart(file, Len(file)) + file[Len(file)] + 1

\* f.read().splitlines() after a seek to pos
RECURSIVE splitlines(_, _, _)
splitlines(file, pos, i) ==
    IF i > Len(file)
    THEN << >>
    ELSE LET start == LineStart(file, i)
             rest == splitlines(file, pos, i + 1)
         IN  IF pos > start + file[i]
             THEN rest
             ELSE <<[line |-> i,
                     chars |-> start + file[i] - (IF pos > start THEN pos ELSE start)]>>
                  \o rest

\* 13 ^ k and 10 ^ k
RECURSIVE Pow(_, _)
Pow(b, k) == IF k = 0 THEN 1 ELSE b * Pow(b, k - 1)

\* avg_line_length * to_read after k multiplications by 1.3, as seek takes it
SeekBack(to_read, k) ==
    (avg_line_length * Pow(13, k) * to_read) \div Pow(10, k)

\* lines[-to_read:None]
LastOf(lines, to_read) ==
    IF to_read = 0 \/ to_read >= Len(lines)
    THEN lines
    ELSE SubSeq(lines, Len(lines) - to_read + 1, Len(lines))

\* tail(f, n): the loop `while 1', in its k-th pass
RECURSIVE tail(_, _, _)
tail(file, to_read, k) ==
    LET back == SeekBack(to_read, k)
        \* f.seek(-back, 2) raises IOError before the start of the file
        pos == IF back > FileSize(file) THEN 0 ELSE FileSize(file) - back
        lines == splitlines(file, pos, 1)
    IN  IF Len(lines) >= to_read \/ pos = 0
        THEN LastOf(lines, to_read)
        ELSE tail(file, to_read, k + 1)

\* get_log_tail(path, n)
get_log_tail ==
    /\ pc = Idle
    /\ \E file \in Files, n \in 0..MaxN :
          ret' = Return("get_log_tail", 0, FALSE, <<file, n>>, tail(file, n, 0))
    /\ UNCHANGED <<corelib_vars, process_vars, nethogs_vars, now, I1, raw, module,
                   threads, armed, pc>>

\* ----------------------------------------------------------------- init

\* the state after import, for a program that uses the module(s) m in an
\* environment that keeps I1 (i) or not
Start(m, i) ==
    /\ prev_cpu_work_time = 0
    /\ prev_cpu_total_time = 0
    /\ prev_net_receive_byte = 0
    /\ prev_net_send_byte = 0
    /\ prev_net_time = 0
    /\ watch_pid = {}
    /\ process_info = [k \in {} |-> process_info_dict]
    /\ all_prev_cpu_total_time = 0
    /\ libnethogs_thread = "None"
    /\ libnethogs_thread_install = FALSE
    /\ libnethogs_data = [k \in {} |-> 0]
    /\ libnethogs = "None"
    /\ workers = 0
    /\ handler = FALSE
    /\ events = << >>
    /\ now = 0
    /\ raw = [total |-> 0, work |-> 0, recv |-> 0, sent |-> 0,
              cpu |-> [p \in Pids |-> 0],
              io |-> [p \in Pids |-> <<0, 0>>]]
    /\ I1 = i
    /\ module = m
    /\ threads = [t \in Tids |-> ThreadIdle]
    /\ armed = {}
    /\ pc = Idle
    /\ ret = NoReturn

Init == Start("both", FALSE)

NextSysCpu ==
    \/ calc_cpu_percent_enter
    \/ calc_cpu_percent_sample

NextNet ==
    \/ calc_net_speed_enter
    \/ calc_net_speed_sample

NextCore == NextSysCpu \/ NextNet

NextCpu ==
    \/ \E pid \in Pids : calc_process_cpu_percent_enter(pid)
    \/ calc_process_cpu_percent_sample

NextIo ==
    \/ \E pid \in Pids : calc_process_cpu_io_enter(pid)
    \/ calc_process_cpu_io_sample

NextNethogs ==
    \/ \E pid \in Pids : get_process_net_info(pid)
    \/ \E pid \in Pids, action \in Actions : network_activity_callback(action, pid)

\* process_monitor.py: disk IO alone
SpecIo == Init /\ [][NextIo]_vars

\* process_monitor.py: process CPU with the nethogs feed
SpecMon == Init /\ [][NextCpu \/ NextNethogs]_vars

\* process_monitor.py: threads in calc_process_cpu_percent, with the nethogs
\* feed, in an environment that keeps I1
InitThreads == Start("threads", TRUE)

NextThreads ==
    \/ \E t \in Tids, pid \in ThreadPids : calc_process_cpu_percent_call(t, pid)
    \/ \E t \in Tids : calc_process_cpu_percent_L352(t)
    \/ \E t \in Tids : calc_process_cpu_percent_L353(t)
    \/ \E t \in Tids : calc_process_cpu_percent_L354(t)
    \/ \E t \in Tids : calc_process_cpu_percent_L356(t)
    \/ \E t \in Tids : calc_process_cpu_percent_L357(t)
    \/ \E t \in Tids : calc_process_cpu_percent_L358(t)
    \/ \E t \in Tids : calc_process_cpu_percent_L361(t)
    \/ \E t \in Tids : calc_process_cpu_percent_L362(t)
    \/ \E t \in Tids : calc_process_cpu_percent_L363(t)
    \/ \E t \in Tids : calc_process_cpu_percent_L366(t)
    \/ \E t \in Tids : calc_process_cpu_percent_L367(t)
    \/ \E pid \in ThreadPids : get_process_net_info(pid)
    \/ \E pid \in ThreadPids, action \in Actions :
          network_activity_callback(action, pid)

SpecThreads == InitThreads /\ [][NextThreads]_vars

\* process_monitor.py: the traffic monitor, started and stopped
InitTraffic == Start("traffic", FALSE)

NextTraffic ==
    \/ NextNethogs
    \/ signal_handler
    \/ \E rc \in LoopStatus : run_monitor_loop_return(rc)

SpecTraffic == InitTraffic /\ [][NextTraffic]_vars

\* the same operations without the history of deliveries
SpecLifecycle == Init /\ [][NextTraffic]_vars

\* corelib.py: the reader of /proc/net/dev
NextNetDev ==
    \/ get_net_dev_data

SpecNetDev == Init /\ [][NextNetDev]_vars

\* process_monitor.py: the log readers
NextLog ==
    \/ get_log_head
    \/ get_log_tail

SpecLog == Init /\ [][NextLog]_vars

\* corelib.py and process_monitor.py share no state (process_monitor imports
\* sys_monitor, not corelib): a program that uses one of the two
InitOne == \E m \in {"corelib", "process_monitor"} : Start(m, FALSE)

NextOne ==
    \/ module = "corelib" /\ NextCore
    \/ module = "process_monitor" /\ (NextCpu \/ NextIo)

SpecOne == InitOne /\ [][NextOne]_vars

\* the same program in an environment that keeps I1
InitOneI1 == \E m \in {"corelib", "process_monitor"} : Start(m, TRUE)

SpecOneI1 == InitOneI1 /\ [][NextOne]_vars

NextMem ==
    \/ calc_mem_percent

SpecMem == Init /\ [][NextMem]_vars

\* corelib.py: system CPU alone, network speed alone
SpecSysCpu == Init /\ [][NextSysCpu]_vars

SpecNet == Init /\ [][NextNet]_vars

\* ------------------------------------------------------------- properties
SamplingFunctions == {"calc_cpu_percent", "calc_net_speed",
                      "calc_process_cpu_percent", "calc_process_cpu_io"}

\* the outcome r is a rate (or pair of rates) with a negative number in it
Negative(r) ==
    /\ r.kind = "value"
    /\ IF r.fn \in {"calc_net_speed", "calc_process_cpu_io"}
       THEN r.val[1].num < 0 \/ r.val[2].num < 0
       ELSE r.val.num < 0

\* the (scope, kind) whose stored previous sample the function f reads for pid p
Scope(f, p) ==
    CASE f = "calc_cpu_percent" -> {<<0, "cpu">>}
      [] f = "calc_net_speed" -> {<<0, "net">>}
      [] f = "calc_process_cpu_percent" -> {<<0, "total">>, <<p, "cpu">>}
      [] f = "calc_process_cpu_io" -> {<<p, "io">>}
      [] OTHER -> {}

\* C1: a call of calc_cpu_percent that skips the warm-up and returns a value
\* returns (currWork - prevWork) * 100 / (currTotal - prevTotal) over the stored
\* previous sample and the sample it read, with currTotal # prevTotal; it
\* stores the sample it read, so the stored previous sample is the sample of
\* the preceding call that returned; (100, 30) then (120, 42) gives 60.
C1_CpuPercent ==
    [][ /\ (pc.fn = "calc_cpu_percent" /\ ~pc.warm /\ ret'.kind = "value") =>
             /\ ret'.sample[1] # prev_cpu_total_time
             /\ ret'.val = Frac((ret'.sample[2] - prev_cpu_work_time) * 100,
                                ret'.sample[1] - prev_cpu_total_time)
             /\ <<prev_cpu_total_time', prev_cpu_work_time'>> = ret'.sample
             /\ (ret.fn = "calc_cpu_percent" /\ ret.kind = "value") =>
                   <<prev_cpu_total_time, prev_cpu_work_time>> = ret.sample
        /\ cpu_percent(30, 100, 42, 120) = [num |-> 60, den |-> 1]
      ]_vars

\* a call without warm-up saw the counters grow from (1, 1) to (2, 2): 100 %
C1_Witness ==
    /\ ret.fn = "calc_cpu_percent" /\ ~ret.warm /\ ret.kind = "value"
    /\ ret.sample = <<2, 2>>
    /\ ret.val = [num |-> 100, den |-> 1]

\* C2: when the fresh total CPU time equals the stored previous total,
\* calc_cpu_percent and calc_process_cpu_percent finish with a defined result:
\* no error is raised.
C2_NotYetMeasurable ==
    [][ \A f \in {"calc_cpu_percent", "calc_process_cpu_percent"} :
          (/\ pc.fn = f
           /\ ret'.sample # NoSample
           /\ ret'.sample[1] = (IF f = "calc_cpu_percent"
                                THEN prev_cpu_total_time
                                ELSE all_prev_cpu_total_time))
          => ret'.kind = "value"
      ]_vars

\* C3: in a sampling function, a fresh counter below the stored previous one
\* (with the total CPU time, or the clock, ahead of the stored one) never
\* makes the call return a negative number.
C3_NoNegativeRate ==
    [][ (/\ pc.fn \in SamplingFunctions
         /\ ret'.sample # NoSample
         /\ CASE pc.fn = "calc_cpu_percent" ->
                   /\ ret'.sample[2] < prev_cpu_work_time
                   /\ ret'.sample[1] > prev_cpu_total_time
              [] pc.fn = "calc_net_speed" ->
                   /\ \/ ret'.sample[1] < prev_net_receive_byte
                      \/ ret'.sample[2] < prev_net_send_byte
                   /\ ret'.sample[3] > prev_net_time
              [] pc.fn = "calc_process_cpu_percent" ->
                   /\ ret'.sample[2] < process_info[str(pc.pid)].prev_cpu_time
                   /\ ret'.sample[1] > all_prev_cpu_total_time
              [] pc.fn = "calc_process_cpu_io" ->
                   /\ \/ ret'.sample[1] < process_info[str(pc.pid)].prev_io[1]
                      \/ ret'.sample[2] < process_info[str(pc.pid)].prev_io[2]
                   /\ ret'.sample[3] > process_info[str(pc.pid)].pre_time)
        => ~Negative(ret')
      ]_vars

\* C4: when no raw counter decreases and the timestamps strictly increase,
\* every rate a sampling function returns is >= 0, whatever the order of the
\* calls and the pids.
C4_RatesNonNegative ==
    ret.fn \in SamplingFunctions => ~Negative(ret)

\* the second pid got a positive read rate from a call without warm-up
C4_Witness ==
    /\ I1
    /\ ret.fn = "calc_process_cpu_io" /\ ret.pid = 2 /\ ~ret.warm
    /\ ret.kind = "value"
    /\ ret.val[1].num > 0

\* C5: calc_mem_percent returns (total - available) * 100 / total, from the
\* available and not from the free counter; total 1000 and available 400
\* give 60 whatever the free counter is.
C5_MemPercent ==
    /\ ret.fn = "calc_mem_percent" =>
          ret.val = Frac((ret.sample[1] - ret.sample[3]) * 100, ret.sample[1])
    /\ \A free \in {0, 400, 600, 1000} :
          mem_percent(1000, free, 400) = [num |-> 60, den |-> 1]

\* total 5, free 1, available 3: 40 % and not 80 %
C5_Witness ==
    /\ ret.fn = "calc_mem_percent"
    /\ ret.sample = <<5, 1, 3>>
    /\ ret.val = [num |-> 40, den |-> 1]

C7_ProcessIoRounded ==
    [][ /\ (pc.fn = "calc_process_cpu_io" /\ ret'.kind = "value") =>
             LET e == process_info[str(pc.pid)]
                 dt == ret'.sample[3] - e.pre_time
             IN  ret'.val =
                   <<round2(Frac(ret'.sample[1] - e.prev_io[1], 1000000 * dt)),
                     round2(Frac(ret'.sample[2] - e.prev_io[2], 1000000 * dt))>>
        /\ \A t \in 1..MaxTime :
              /\ round2(io_MBs(0, 2000000, t, t + 2)) = [num |-> 1, den |-> 1]
              /\ round2(io_MBs(0, 0, t, t + 2)) = [num |-> 0, den |-> 1]
      ]_vars

\* 26000 bytes read in one second are returned as 0.03 MB/s
C7_Witness ==
    /\ ret.fn = "calc_process_cpu_io" /\ ret.kind = "value"
    /\ ret.val = <<[num |-> 3, den |-> 100], [num |-> 0, den |-> 1]>>

\* C7 as the specification states it: the pair returned is the exact quotient
C7_ProcessIoExact ==
    [][ (pc.fn = "calc_process_cpu_io" /\ ret'.kind = "value") =>
          LET e == process_info[str(pc.pid)]
              dt == ret'.sample[3] - e.pre_time
          IN  ret'.val = <<Frac(ret'.sample[1] - e.prev_io[1], 1000000 * dt),
                           Frac(ret'.sample[2] - e.prev_io[2], 1000000 * dt)>>
      ]_vars

\* C8: a sampling call for a (scope, kind) without a stored previous sample
\* takes the warm-up branch; the warm-up branch stores a baseline read from the
\* counter source before it waits; and every rate returned is computed from
\* the stored sample, which was read from the counter source and is not the
\* initial 0 / None, and the sample read after the wait.
C8_WarmUp ==
    [][ /\ (pc = Idle /\ pc'.fn \in SamplingFunctions) =>
             /\ ~(Scope(pc'.fn, pc'.pid) \subseteq armed) => pc'.warm
             /\ pc'.warm => Scope(pc'.fn, pc'.pid) \subseteq armed'
        /\ (pc.fn \in SamplingFunctions /\ ret'.kind = "value") =>
             /\ Scope(pc.fn, pc.pid) \subseteq armed
             /\ ret'.warm = pc.warm
             /\ CASE pc.fn = "calc_cpu_percent" ->
                       ret'.val = Frac((ret'.sample[2] - prev_cpu_work_time) * 100,
                                       ret'.sample[1] - prev_cpu_total_time)
                  [] pc.fn = "calc_net_speed" ->
                       ret'.val[1] = Frac(ret'.sample[1] - prev_net_receive_byte,
                                          1024 * (ret'.sample[3] - prev_net_time))
                  [] pc.fn = "calc_process_cpu_percent" ->
                       /\ process_info[str(pc.pid)].prev_cpu_time # None
                       /\ ret'.val =
                            Frac((ret'.sample[2]
                                    - process_info[str(pc.pid)].prev_cpu_time) * 100,
                                 ret'.sample[1] - all_prev_cpu_total_time)
                  [] pc.fn = "calc_process_cpu_io" ->
                       /\ process_info[str(pc.pid)].prev_io # NoneIo
                       /\ ret'.val[1] =
                            round2(Frac(ret'.sample[1]
                                          - process_info[str(pc.pid)].prev_io[1],
                                        1000000 * (ret'.sample[3]
                                          - process_info[str(pc.pid)].pre_time)))
      ]_vars

\* the first disk IO call for pid 2, already registered by a CPU call, took the
\* warm-up branch and returned a rate
C8_Witness ==
    /\ ret.fn = "calc_process_cpu_io" /\ ret.pid = 2 /\ ret.warm
    /\ ret.kind = "value"
    /\ <<2, "cpu">> \in armed
    /\ ret.val[1].num # 0

\* C9: every pid of the watch set has an entry in the registry process_info.
C9_WatchedHasEntry ==
    \A pid \in watch_pid : str(pid) \in DOMAIN process_info

\* C10: after a counter lookup failed because the process has exited, the pid
\* is in neither the watch set nor the registry and has no traffic record.
C10_ExitedPidRemoved ==
    (ret.kind = "raise" /\ ret.exc = "ProcessNotFound") =>
        /\ ret.pid \notin watch_pid
        /\ str(ret.pid) \notin DOMAIN process_info
        /\ Get(libnethogs_data, str(ret.pid)) = EmptyDict

\* C11: a poll of calc_process_cpu_percent or calc_process_cpu_io for a pid
\* that already has a stored sample never ends with the process-not-found
\* failure of the counter read.
C11_NoProcessNotFound ==
    (ret.fn \in {"calc_process_cpu_percent", "calc_process_cpu_io"} /\ ~ret.warm)
        => ret.exc # "ProcessNotFound"

\* C13: a get_process_net_info call that finds the capture engine missing
\* leaves the calling program running.
C13_ProgramNotTerminated ==
    pc # Exited

\* C19: a sampling call that follows a successful call of the same function
\* for the same scope does not take the warm-up branch.
C19_NoSecondWarmUp ==
    [][ ( /\ pc = Idle
          /\ ret.kind = "value"
          /\ ret.fn \in SamplingFunctions
          /\ pc'.fn = ret.fn
          /\ pc'.pid = ret.pid )
        => ~pc'.warm ]_vars

\* C20: calc_process_cpu_percent and calc_process_cpu_io never fail because
\* the registry entry of the pid is missing.
C20_NoMissingEntry ==
    ret.fn \in {"calc_process_cpu_percent", "calc_process_cpu_io"}
        => ret.exc # "KeyError"

\* every operation process_monitor.py offers between two calls
Operations ==
    \/ NextCpu
    \/ NextIo
    \/ NextTraffic

\* process_monitor.py: every operation, all for one pid
NextAll ==
    \/ \E pid \in ThreadPids : calc_process_cpu_percent_enter(pid)
    \/ calc_process_cpu_percent_sample
    \/ \E pid \in ThreadPids : calc_process_cpu_io_enter(pid)
    \/ calc_process_cpu_io_sample
    \/ \E pid \in ThreadPids : get_process_net_info(pid)
    \/ \E pid \in ThreadPids, action \in Actions :
          network_activity_callback(action, pid)
    \/ signal_handler
    \/ \E rc \in LoopStatus : run_monitor_loop_return(rc)

SpecAll == Init /\ [][NextAll]_vars

\* C12: the registry offers an unwatch operation: whenever a pid is watched
\* and no call is in progress, some operation takes the pid out of the watch
\* set.
C12_UnwatchOffered ==
    \A pid \in watch_pid :
        pc = Idle => ENABLED (Operations /\ pid \notin watch_pid')

\* C14: while the thread handle is stored and a capture thread is alive, a
\* get_process_net_info call starts nothing: the handle, the number of capture
\* threads, the loaded library and the installed handlers stay as they were.
C14_StartTwiceNoOp ==
    [][ ( /\ libnethogs_thread # "None"
          /\ workers > 0
          /\ \E pid \in Pids : get_process_net_info(pid) )
        => /\ libnethogs_thread' = libnethogs_thread
           /\ workers' = workers
           /\ libnethogs' = libnethogs
           /\ handler' = handler ]_vars

\* a call for pid 2 returned the record of an event delivered after pid 2 was
\* watched, with pid 1 watched as well and still one capture thread
C14_Witness ==
    /\ ret.fn = "get_process_net_info" /\ ret.pid = 2
    /\ ret.kind = "value"
    /\ ret.val = {Record(1, 2)}
    /\ watch_pid = {1, 2}
    /\ libnethogs_thread = "Thread"
    /\ workers = 1

\* C15: signal_handler, in every state in which the signal can arrive, ends
\* without an error.
C15_StopRaisesNothing ==
    ret.fn = "signal_handler" => ret.kind # "raise"

\* the record of the most recent event of evs for pid that arrived while pid
\* was watched, as a dict result; empty when there is none
RECURSIVE LatestRecord(_, _)
LatestRecord(evs, pid) ==
    IF evs = << >>
    THEN EmptyDict
    ELSE LET e == evs[Len(evs)]
         IN IF e.pid = pid /\ e.watched
            THEN {Record(e.action, e.pid)}
            ELSE LatestRecord(SubSeq(evs, 1, Len(evs) - 1), pid)

\* C16: get_process_net_info(pid) returns the record built from the most
\* recent event for pid delivered while pid was watched, and an empty result
\* when there is none; the stored record of every pid is that of its latest
\* such event.
C16_LatestEvent ==
    [][ /\ \A pid \in Pids :
             (get_process_net_info(pid) /\ ret'.kind = "value")
                 => ret'.val = LatestRecord(events, pid)
        /\ \A pid \in Pids :
             Get(libnethogs_data', str(pid)) = LatestRecord(events', pid) ]_vars

\* pid 1 was sent an event before it was watched and two events after; the
\* call returned the record of the last one
C16_Witness ==
    /\ ret.fn = "get_process_net_info" /\ ret.pid = 1
    /\ ret.kind = "value"
    /\ events = << [pid |-> 1, action |-> 2, watched |-> FALSE],
                   [pid |-> 1, action |-> 1, watched |-> TRUE],
                   [pid |-> 1, action |-> 3, watched |-> TRUE] >>
    /\ ret.val = {Record(3, 1)}

\* C17: with counters that never decrease, the rate a thread returns from
\* calc_process_cpu_percent is never negative, however the calls of the
\* threads for the pid interleave: a sequential execution yields none.
C17_SerializedSamples ==
    (module = "threads" /\ ret.fn = "calc_process_cpu_percent"
                        /\ ret.kind = "value")
        => ret.val.num >= 0

\* C18: once a previous sample is stored in the entry of a pid, no step puts a
\* fresh copy without a sample in its place, and no thread computes a rate
\* from a None previous sample.
C18_RegistryNotCorrupted ==
    [][ /\ \A pid \in Pids :
             ( /\ str(pid) \in DOMAIN process_info
               /\ process_info[str(pid)].prev_cpu_time # None )
             => process_info'[str(pid)].prev_cpu_time # None
        /\ ret'.exc # "TypeError" ]_vars

\* C21: when the capture loop returns FAILURE or NO_DEVICE, the stored thread
\* handle is cleared.
C21_FailedLoopClearsHandle ==
    [][ \A rc \in LoopStatus :
           (run_monitor_loop_return(rc) /\ LoopStatusName(rc) # "OK")
               => libnethogs_thread' = "None" ]_vars

\* C22: after a start, the thread handle is None only when no capture thread
\* is inside the loop any more.
C22_StoppedAfterWorkerExit ==
    (libnethogs = "CDLL" /\ libnethogs_thread = "None") => workers = 0

\* C23: at most one capture thread is alive.
C23_OneWorker ==
    workers <= 1

\* C24: a step that changes the traffic map libnethogs_data is a step of
\* network_activity_callback; the sampling calls, get_process_net_info (with
\* init_nethogs_thread) and signal_handler leave the map as it was.
C24_CallbackSoleWriter ==
    [][ libnethogs_data' # libnethogs_data
          => \E pid \in Pids, action \in Actions :
                network_activity_callback(action, pid) ]_vars

\* the pid has a traffic record, the monitor was stopped by signal_handler, and
\* both kinds were sampled for the pid, the disk IO call last
C24_Witness ==
    /\ ret.fn = "calc_process_cpu_io" /\ ret.kind = "value"
    /\ str(ret.pid) \in DOMAIN libnethogs_data
    /\ libnethogs = "CDLL" /\ libnethogs_thread = "None"
    /\ process_info[str(ret.pid)].prev_cpu_time # None

\* C25: an event whose pid is watched replaces the traffic record of that pid
\* by the record of the event and leaves every other record alone; an event
\* whose pid is not watched leaves the traffic map alone; neither changes the
\* watch set.
C25_CallbackFrame ==
    [][ \A pid \in Pids, action \in Actions :
           network_activity_callback(action, pid)
             => /\ watch_pid' = watch_pid
                /\ IF pid \in watch_pid
                   THEN /\ DOMAIN libnethogs_data' =
                             DOMAIN libnethogs_data \cup {str(pid)}
                        /\ libnethogs_data'[str(pid)] = Record(action, pid)
                        /\ \A k \in DOMAIN libnethogs_data \ {str(pid)} :
                              libnethogs_data'[k] = libnethogs_data[k]
                   ELSE libnethogs_data' = libnethogs_data ]_vars

\* the record of pid 1 that a call returned has been replaced by the record of
\* a later event, and pid 2, not watched, has no record
C25_Witness ==
    /\ watch_pid = {1}
    /\ ret.fn = "get_process_net_info" /\ ret.kind = "value"
    /\ ret.val = {Record(1, 1)}
    /\ DOMAIN libnethogs_data = {"1"}
    /\ libnethogs_data["1"] = Record(2, 1)

\* C26: no pid has a traffic record built from a REMOVE event: such an event
\* purges the record of the pid.
C26_RemovePurges ==
    \A pid \in Pids :
        Get(libnethogs_data, str(pid)) # {Record(2, pid)}

\* C27: a step of calc_process_cpu_percent leaves the stored IO sample and IO
\* timestamp of every entry as they were, a step of calc_process_cpu_io leaves
\* the stored CPU time of every entry as it was, and a call of one kind for a
\* pid that has a stored sample of the other kind only takes its own warm-up.
C27_KindsIndependent ==
    [][ /\ ( (\E pid \in Pids : calc_process_cpu_percent_enter(pid))
             \/ calc_process_cpu_percent_sample )
          => \A k \in DOMAIN process_info :
                /\ process_info'[k].prev_io = process_info[k].prev_io
                /\ process_info'[k].pre_time = process_info[k].pre_time
        /\ ( (\E pid \in Pids : calc_process_cpu_io_enter(pid))
             \/ calc_process_cpu_io_sample )
          => \A k \in DOMAIN process_info :
                process_info'[k].prev_cpu_time = process_info[k].prev_cpu_time
        /\ \A pid \in Pids :
             ( /\ calc_process_cpu_io_enter(pid)
               /\ str(pid) \in DOMAIN process_info
               /\ process_info[str(pid)].prev_cpu_time # None
               /\ process_info[str(pid)].prev_io = NoneIo )
             => \/ pc' = At("calc_process_cpu_io", pid, TRUE)
                \/ ret'.kind = "raise" /\ ret'.warm
        /\ \A pid \in Pids :
             ( /\ calc_process_cpu_percent_enter(pid)
               /\ str(pid) \in DOMAIN process_info
               /\ process_info[str(pid)].prev_io # NoneIo
               /\ process_info[str(pid)].prev_cpu_time = None )
             => \/ pc' = At("calc_process_cpu_percent", pid, TRUE)
                \/ ret'.kind = "raise" /\ ret'.warm ]_vars

\* the first CPU call for a pid whose disk IO was sampled before took the
\* warm-up branch and returned a rate; the IO sample is still stored
C27_Witness ==
    /\ ret.fn = "calc_process_cpu_percent" /\ ret.warm
    /\ ret.kind = "value"
    /\ <<ret.pid, "io">> \in armed
    /\ process_info[str(ret.pid)].prev_io # NoneIo
    /\ process_info[str(ret.pid)].pre_time > 0

\* C28: a step of calc_process_cpu_percent for one pid leaves the baseline of
\* every other pid that has a stored CPU sample as it was: its stored CPU time
\* and the total CPU time its next rate is measured from.
C28_OtherPidBaselineKept ==
    [][ \A a \in Pids, b \in Pids :
           ( /\ a # b
             /\ \/ calc_process_cpu_percent_enter(a)
                \/ pc.pid = a /\ calc_process_cpu_percent_sample
             /\ str(b) \in DOMAIN process_info
             /\ process_info[str(b)].prev_cpu_time # None )
           => /\ process_info'[str(b)].prev_cpu_time
                    = process_info[str(b)].prev_cpu_time
              /\ all_prev_cpu_total_time' = all_prev_cpu_total_time ]_vars

\* C29: a sampling call of the process monitor that ends with a failed counter
\* read leaves the stored samples of every other pid and the shared previous
\* total CPU time as they were before the call's step.
C29_FailedReadIsLocal ==
    [][ ( /\ pc' = Idle
          /\ ret'.kind = "raise"
          /\ ret'.fn \in {"calc_process_cpu_percent", "calc_process_cpu_io"}
          /\ ret'.exc \in {"ProcessNotFound", "PermissionDenied"} )
        => /\ all_prev_cpu_total_time' = all_prev_cpu_total_time
           /\ \A k \in DOMAIN process_info \ {str(ret'.pid)} :
                 process_info'[k] = process_info[k] ]_vars

\* the stored previous sample the function f keeps for pid p, in the layout of
\* the raw sample of a call
Stored(f, p) ==
    CASE f = "calc_cpu_percent" -> <<prev_cpu_total_time, prev_cpu_work_time>>
      [] f = "calc_net_speed" ->
            <<prev_net_receive_byte, prev_net_send_byte, prev_net_time>>
      [] f = "calc_process_cpu_percent" ->
            <<all_prev_cpu_total_time, process_info[str(p)].prev_cpu_time>>
      [] f = "calc_process_cpu_io" ->
            <<process_info[str(p)].prev_io[1], process_info[str(p)].prev_io[2],
              process_info[str(p)].pre_time>>

\* C30: when a sampling call has returned a value, the stored previous sample
\* of its scope and kind is the sample the call took, also when a fresh
\* counter was below the stored one.
C30_LastWriteWins ==
    (pc = Idle /\ ret.kind = "value" /\ ret.fn \in SamplingFunctions)
        => Stored(ret.fn, ret.pid) = ret.sample

\* calc_cpu_percent read a work time below the stored one, returned a negative
\* percentage and stored the lower sample
C30_Witness ==
    /\ pc = Idle
    /\ ret.fn = "calc_cpu_percent" /\ ret.kind = "value"
    /\ ret.val.num < 0
    /\ prev_cpu_work_time = ret.sample[2]
    /\ prev_cpu_total_time = ret.sample[1]

\* C31: the start of a sampling call adds the pid to the watch set; for a pid
\* already watched and registered it keeps every stored previous sample of
\* the entry, and it adds an entry only for a pid absent from the watch set.
C31_WatchIdempotent ==
    [][ \A pid \in Pids :
           ( calc_process_cpu_percent_enter(pid) \/ calc_process_cpu_io_enter(pid) )
           => /\ watch_pid' = watch_pid \cup {pid}
              /\ DOMAIN process_info' # DOMAIN process_info => pid \notin watch_pid
              /\ (pid \in watch_pid /\ str(pid) \in DOMAIN process_info)
                 => LET old == process_info[str(pid)]
                        new == process_info'[str(pid)]
                    IN  /\ old.prev_cpu_time # None
                             => new.prev_cpu_time = old.prev_cpu_time
                        /\ old.prev_io # NoneIo
                             => new.prev_io = old.prev_io /\ new.pre_time = old.pre_time
      ]_vars

\* a CPU call without warm-up returned a rate for a pid whose entry also holds
\* the IO sample stored by earlier calls
C31_Witness ==
    /\ ret.fn = "calc_process_cpu_percent" /\ ~ret.warm
    /\ ret.kind = "value"
    /\ ret.pid \in watch_pid
    /\ process_info[str(ret.pid)].prev_io # NoneIo
    /\ process_info[str(ret.pid)].prev_cpu_time = ret.sample[2]

\* C32: no step removes a pid from watch_pid, a key from process_info or a key
\* from libnethogs_data.
C32_OnlyGrow ==
    [][ /\ watch_pid \subseteq watch_pid'
        /\ DOMAIN process_info \subseteq DOMAIN process_info'
        /\ DOMAIN libnethogs_data \subseteq DOMAIN libnethogs_data' ]_vars

\* a sampling call ended with a failed counter read after signal_handler had
\* stopped the monitor; the pid is still watched, registered and has a record
C32_Witness ==
    /\ ret.kind = "raise" /\ ~ret.warm
    /\ ret.exc \notin {"KeyError", "ZeroDivisionError", "AttributeError"}
    /\ ret.fn \in {"calc_process_cpu_percent", "calc_process_cpu_io"}
    /\ libnethogs = "CDLL" /\ libnethogs_thread = "None"
    /\ ret.pid \in watch_pid
    /\ str(ret.pid) \in DOMAIN process_info
    /\ str(ret.pid) \in DOMAIN libnethogs_data

\* C33: every pid that has a record in libnethogs_data is in watch_pid.
C33_RecordsAreWatched ==
    \A k \in DOMAIN libnethogs_data : \E pid \in watch_pid : str(pid) = k

\* pid 2 has a record and is watched, pid 1 is not watched and has none, and
\* the monitor was stopped while its capture thread is still alive
C33_Witness ==
    /\ watch_pid = {2}
    /\ DOMAIN libnethogs_data = {"2"}
    /\ libnethogs_thread = "None"
    /\ workers = 1

\* the first k lines of the file, whole
FirstLines(file, k) ==
    [i \in 1..(IF k < Len(file) THEN k ELSE Len(file)) |-> WholeLine(file, i)]

\* the last k lines of the file, whole
LastLines(file, k) ==
    LET m == IF k < Len(file) THEN k ELSE Len(file)
    IN  [i \in 1..m |-> WholeLine(file, Len(file) - m + i)]

\* C34: get_log_head(path, n) returns the first n lines of the file, or all of
\* them when there are fewer, and never more than n elements, for n >= 0.
C34_LogHead ==
    ret.fn = "get_log_head"
        => /\ Len(ret.val) <= ret.sample[2]
           /\ ret.val = FirstLines(ret.sample[1], ret.sample[2])

\* C35: get_log_tail(path, n) returns the last min(n, number of lines) lines
\* of the file, whole and in file order, for n >= 0.
C35_LogTail ==
    ret.fn = "get_log_tail"
        => ret.val = LastLines(ret.sample[1], ret.sample[2])

\* the sums of the received and the sent bytes over the device lines of the
\* table, from line i on, the device "lo" left out
RECURSIVE SumButLoopback(_, _)
SumButLoopback(table, i) ==
    IF i > Len(table)
    THEN <<0, 0>>
    ELSE LET rest == SumButLoopback(table, i + 1)
         IN  IF table[i] # HeaderLine /\ table[i].text # <<"l", "o", ":">>
             THEN <<table[i].recv + rest[1], table[i].sent + rest[2]>>
             ELSE rest

\* C36: get_net_dev_data returns the sums of the received and the sent bytes
\* over every device of the table but "lo"; a device whose name contains the
\* letters "lo" is counted.
C36_AllButLoopback ==
    ret.fn = "get_net_dev_data"
        => ret.val = SumButLoopback(ret.sample, 1)

=============================================================================
